---- MODULE Spec2Model ----
(***************************************************************************)
(* DrmDevice (src/DrmDevice.cpp): the display-device manager of the        *)
(* drmfb composer.  It owns the DRM file descriptor, the pool of CRTCs     *)
(* with its in-use mask, the registry of displays keyed by connector id,   *)
(* the primary-display marker, the callback pointer and the hotplug        *)
(* thread.                                                                 *)
(*                                                                         *)
(* Two threads act on it: the owning thread, which calls the public        *)
(* methods one after the other, and the hotplug thread, which calls        *)
(* update() while it is enabled.  enable() and disable() are modelled      *)
(* statement by statement so that the hotplug thread interleaves with      *)
(* them; the other methods are one step each.                              *)
(***************************************************************************)
EXTENDS Integers, Sequences, FiniteSets

\* ---------------------------------------------------------------- bounds
MaxCrtcs == 2
MaxConnectors == 2
NumCallers == 2

\* Width of int, the type of the expression 1 << pipe.
IntBits == 32

CrtcIds == {10 + i : i \in 1..MaxCrtcs}
Connectors == 1..MaxConnectors
Callers == 1..NumCallers
\* Pipe indices passed to reserveCrtc/freeCrtc: in range, just out of range,
\* and beyond the width of int.
Pipes == (0..MaxCrtcs) \cup {IntBits + 1}
AllBits == 0..(IntBits - 1)

\* ---------------------------------------------------------------- helpers
Perms(S) ==
    {f \in [1..Cardinality(S) -> S] : \A i, j \in 1..Cardinality(S) : i # j => f[i] # f[j]}

\* The CRTC lists a resource query can return: distinct non-zero object ids.
CrtcLists == UNION {Perms(T) : T \in SUBSET CrtcIds}

\* All CRTCs of the device, in the order the kernel lists them.
AllCrtcs == [i \in 1..MaxCrtcs |-> 10 + i]

VARIABLES
    mFd,             \* file descriptor; negative when open() failed
    mCrtcs,          \* std::vector<uint32_t>: the pool, 1-based here
    mUsedCrtcs,      \* in-use mask, as the set of its set bit positions
    mDisplays,       \* connector id -> display entity
    order,           \* iteration order of mDisplays (sequence of its keys)
    mPrimaryDisplay, \* id of the primary display, 0 when none
    mCallback,       \* DrmCallback*, 0 for nullptr
    hotplugEnabled,  \* mHotplugThread is running
    hpPc,            \* hotplug thread: "idle" or "updating"
    hwConnected,     \* connectors the hardware currently sees connected
    hwInternal,      \* connectors of an internal type (panel)
    pc,              \* owning thread: the current or last call and its position
    done,            \* statements the current or last enable()/disable() has executed
    ret,             \* return value of the last call (0 = false / no CRTC)
    reports,         \* ids of the displays report()ed by the current or last call
    disableCalls,    \* DrmDisplay::disable() invocations in the current or last disable()
    holders,         \* <<caller, pipe>>: caller reserved pipe and has not freed it since
    foreignFree,     \* some caller has freed a pipe held by another caller
    thr              \* per thread: its position inside a reserveCrtc/freeCrtc call

vars == <<mFd, mCrtcs, mUsedCrtcs, mDisplays, order, mPrimaryDisplay, mCallback,
          hotplugEnabled, hpPc, hwConnected, hwInternal, pc, done, ret, reports,
          disableCalls, holders, foreignFree, thr>>

crtcVars == <<mCrtcs, mUsedCrtcs>>
lifeVars == <<mPrimaryDisplay, mCallback, hotplugEnabled>>
envVars == <<hwConnected, hwInternal>>
holdVars == <<holders, foreignFree, thr>>

\* The owning thread and the hotplug thread.
Threads == {1, 2}
\* A thread that is not inside reserveCrtc or freeCrtc.
NotInCall == [at |-> "idle", pipe |-> 0, mask |-> {}, seen |-> {}]

Idle == pc.step = 0
Returned(op) == [op |-> op, step |-> 0, arg |-> 0]

\* ---------------------------------------------------------------- construction
Init ==
    /\ mFd \in {-1, 3}
    /\ mCrtcs = <<>>
    /\ mUsedCrtcs = {}
    /\ mDisplays = <<>>
    /\ order = <<>>
    /\ mPrimaryDisplay = 0
    /\ mCallback = 0
    /\ hotplugEnabled = FALSE
    /\ hpPc = "idle"
    /\ hwConnected \in SUBSET Connectors
    /\ hwInternal \in SUBSET Connectors
    /\ pc = Returned("new")
    /\ done = <<>>
    /\ ret = 0
    /\ reports = <<>>
    /\ disableCalls = <<>>
    /\ holders = {}
    /\ foreignFree = FALSE
    /\ thr = [t \in Threads |-> NotInCall]

\* ---------------------------------------------------------------- CRTC pool
\* 1 << pipe on int: the single bit when pipe < IntBits; undefined beyond,
\* where builds yield the shift by pipe mod IntBits or an empty mask.
ShiftLeftOne(pipe) ==
    IF pipe < IntBits THEN {{pipe}} ELSE {{}, {pipe % IntBits}}

\* reserveCrtc with the bit set before the test instead of after it.
reserveCrtcSetsBitFirst(crtcs, used, pipe, mask) ==
    IF pipe < Len(crtcs) /\ (used \cap mask) = {}
    THEN [used |-> used \cup mask, ret |-> crtcs[pipe + 1]]
    ELSE [used |-> used \cup mask, ret |-> 0]

\* reserveCrtc without the test of the in-use mask.
reserveCrtcNoUsedTest(crtcs, used, pipe, mask) ==
    IF pipe < Len(crtcs)
    THEN [used |-> used \cup mask, ret |-> crtcs[pipe + 1]]
    ELSE [used |-> used, ret |-> 0]

reserveCrtc(crtcs, used, pipe, mask) ==
    IF pipe < Len(crtcs) /\ (used \cap mask) = {}
    THEN [used |-> used \cup mask, ret |-> crtcs[pipe + 1]]
    ELSE [used |-> used, ret |-> 0]

\* freeCrtc with the complement of the mask forgotten.
freeCrtcNoComplement(crtcs, used, pipe, mask) ==
    IF pipe < Len(crtcs) THEN used \cap mask ELSE used

freeCrtc(crtcs, used, pipe, mask) ==
    IF pipe < Len(crtcs) THEN used \cap (AllBits \ mask) ELSE used

ReserveCrtc(o, pipe) ==
    /\ Idle
    /\ \E mask \in ShiftLeftOne(pipe) :
        LET r == reserveCrtc(mCrtcs, mUsedCrtcs, pipe, mask) IN
        /\ mUsedCrtcs' = r.used
        /\ ret' = r.ret
        /\ holders' = IF r.ret # 0 THEN holders \cup {<<o, pipe>>} ELSE holders
    /\ pc' = Returned("reserveCrtc")
    /\ done' = <<>>
    /\ reports' = <<>>
    /\ UNCHANGED <<mFd, mCrtcs, mDisplays, order, lifeVars, hpPc, envVars,
                   disableCalls, foreignFree, thr>>

FreeCrtc(o, pipe) ==
    /\ Idle
    /\ \E mask \in ShiftLeftOne(pipe) :
        mUsedCrtcs' = freeCrtc(mCrtcs, mUsedCrtcs, pipe, mask)
    /\ holders' = holders \ {<<o, pipe>>}
    /\ foreignFree' = (foreignFree \/ \E o2 \in Callers \ {o} : <<o2, pipe>> \in holders)
    /\ ret' = 0
    /\ pc' = Returned("freeCrtc")
    /\ done' = <<>>
    /\ reports' = <<>>
    /\ UNCHANGED <<mFd, mCrtcs, mDisplays, order, lifeVars, hpPc, envVars,
                   disableCalls, thr>>

\* ---------------------------------------------------------------- reserveCrtc, freeCrtc by two threads
\* The statements of reserveCrtc and freeCrtc as the loads and stores of
\* mUsedCrtcs they compile to; nothing in DrmDevice orders the accesses of
\* one thread with those of the other.
raceVars == <<mFd, mCrtcs, mDisplays, order, lifeVars, hpPc, envVars, pc, done, ret,
              reports, disableCalls, foreignFree>>

\* if (pipe < mCrtcs.size() && !(mUsedCrtcs & mask)): the load of the test.
ReserveTest(t, pipe) ==
    /\ thr[t].at = "idle"
    /\ \E mask \in ShiftLeftOne(pipe) :
        IF pipe < Len(mCrtcs) /\ (mUsedCrtcs \cap mask) = {}
        THEN thr' = [thr EXCEPT ![t] = [at |-> "reserveLoad", pipe |-> pipe,
                                        mask |-> mask, seen |-> {}]]
        ELSE thr' = thr
    /\ UNCHANGED <<raceVars, mUsedCrtcs, holders>>

\* mUsedCrtcs |= mask: the load.
ReserveLoad(t) ==
    /\ thr[t].at = "reserveLoad"
    /\ thr' = [thr EXCEPT ![t].at = "reserveStore", ![t].seen = mUsedCrtcs]
    /\ UNCHANGED <<raceVars, mUsedCrtcs, holders>>

\* mUsedCrtcs |= mask: the store; return mCrtcs[pipe].
ReserveStore(t) ==
    /\ thr[t].at = "reserveStore"
    /\ mUsedCrtcs' = thr[t].seen \cup thr[t].mask
    /\ holders' = holders \cup {<<t, thr[t].pipe>>}
    /\ thr' = [thr EXCEPT ![t] = NotInCall]
    /\ UNCHANGED raceVars

\* freeCrtc of a CRTC the thread holds; mUsedCrtcs &= ~mask: the load.
FreeLoad(t, pipe) ==
    /\ thr[t].at = "idle"
    /\ <<t, pipe>> \in holders
    /\ \E mask \in ShiftLeftOne(pipe) :
        IF pipe < Len(mCrtcs)
        THEN thr' = [thr EXCEPT ![t] = [at |-> "freeStore", pipe |-> pipe,
                                        mask |-> mask, seen |-> mUsedCrtcs]]
        ELSE thr' = thr
    /\ UNCHANGED <<raceVars, mUsedCrtcs, holders>>

\* mUsedCrtcs &= ~mask: the store.
FreeStore(t) ==
    /\ thr[t].at = "freeStore"
    /\ mUsedCrtcs' = thr[t].seen \cap (AllBits \ thr[t].mask)
    /\ holders' = holders \ {<<t, thr[t].pipe>>}
    /\ thr' = [thr EXCEPT ![t] = NotInCall]
    /\ UNCHANGED raceVars

\* ---------------------------------------------------------------- initialize
\* What drmModeGetResources can answer: nullptr (ok = FALSE), or the CRTC
\* list and the connectors of the device, which are its first n.
Resources ==
    {r \in [ok : BOOLEAN, crtcs : CrtcLists, connectors : {1..n : n \in 0..MaxConnectors}] :
        ~r.ok => (r.crtcs = <<>> /\ r.connectors = {})}

\* A freshly constructed DrmDisplay has not queried its connector yet.
NewDisplay == [connected |-> FALSE]

\* The loop over the connectors starting at the second one.
insertDisplaysSkipsFirst(displays, connectors) ==
    [k \in (DOMAIN displays) \cup {c \in connectors : \E c2 \in connectors : c2 < c} |->
        IF k \in DOMAIN displays THEN displays[k] ELSE NewDisplay]

\* insert_or_assign() in place of insert(): a key already present gets the
\* new entity.
insertDisplaysOverwrites(displays, connectors) ==
    [k \in (DOMAIN displays) \cup connectors |->
        IF k \in connectors THEN NewDisplay ELSE displays[k]]

\* mDisplays.insert(): a key already present keeps its entity.
insertDisplays(displays, connectors) ==
    [k \in (DOMAIN displays) \cup connectors |->
        IF k \in DOMAIN displays THEN displays[k] ELSE NewDisplay]

\* initialize() emptying the pool before it queries the resources.
initializeClearsPoolFirst(fd, res, crtcs, displays) ==
    IF fd < 0
    THEN [ret |-> 0, crtcs |-> crtcs, displays |-> displays]
    ELSE IF ~res.ok
         THEN [ret |-> 0, crtcs |-> <<>>, displays |-> displays]
         ELSE [ret |-> 1, crtcs |-> res.crtcs,
               displays |-> insertDisplays(displays, res.connectors)]

\* initialize(): its return value, the pool and the registry it leaves.
initialize(fd, res, crtcs, displays) ==
    IF fd < 0
    THEN [ret |-> 0, crtcs |-> crtcs, displays |-> displays]
    ELSE IF ~res.ok
         THEN [ret |-> 0, crtcs |-> crtcs, displays |-> displays]
         ELSE [ret |-> 1, crtcs |-> res.crtcs,
               displays |-> insertDisplays(displays, res.connectors)]

\* New keys take some place in the iteration order of the registry; the
\* call counters of disable() follow the registry.
Initialize(res) ==
    /\ Idle
    /\ pc' = Returned("initialize")
    /\ done' = <<>>
    /\ reports' = <<>>
    /\ LET r == initialize(mFd, res, mCrtcs, mDisplays) IN
        /\ ret' = r.ret
        /\ mCrtcs' = r.crtcs
        /\ mDisplays' = r.displays
        /\ IF DOMAIN r.displays = DOMAIN mDisplays
           THEN order' = order
           ELSE order' \in Perms(DOMAIN r.displays)
        /\ disableCalls' = [k \in DOMAIN r.displays |->
                              IF k \in DOMAIN disableCalls THEN disableCalls[k] ELSE 0]
    /\ UNCHANGED <<mFd, mUsedCrtcs, lifeVars, hpPc, envVars, holdVars>>

\* ---------------------------------------------------------------- displays
\* DrmDisplay, as DrmDevice uses it.
DisplayId(k) == k
DisplayConnected(displays, k) == displays[k].connected
DisplayInternal(internals, k) == k \in internals
\* DrmDisplay::update(): re-query the connector.
DisplayUpdate(d, k, hw) == [d EXCEPT !.connected = (k \in hw)]

\* update() erasing the displays it finds disconnected.
updateDropsDisconnected(displays, hw) ==
    [k \in (DOMAIN displays) \cap hw |-> DisplayUpdate(displays[k], k, hw)]

\* DrmDevice::update(): every display of the registry updates itself.
update(displays, hw) ==
    [k \in DOMAIN displays |-> DisplayUpdate(displays[k], k, hw)]

\* Index of the first key of ord that is in S, 0 when there is none
\* (std::find_if / the for loop with break).
FirstIndex(ord, S) ==
    IF \E i \in 1..Len(ord) : ord[i] \in S
    THEN CHOOSE i \in 1..Len(ord) :
            ord[i] \in S /\ \A j \in 1..(i - 1) : ord[j] \notin S
    ELSE 0

ConnectedKeys(displays) == {k \in DOMAIN displays : DisplayConnected(displays, k)}
ConnectedInternalKeys(displays, internals) ==
    {k \in ConnectedKeys(displays) : DisplayInternal(internals, k)}

\* The selection of enable() with find_if testing connected() alone.
selectPrimaryIgnoresInternal(displays, ord, internals, marker) ==
    LET c == FirstIndex(ord, ConnectedKeys(displays)) IN
    IF c # 0
    THEN [reports |-> <<DisplayId(ord[c])>>, marker |-> DisplayId(ord[c])]
    ELSE [reports |-> <<>>, marker |-> marker]

\* The selection of enable() with the break of the fallback loop missing.
selectPrimaryNoBreak(displays, ord, internals, marker) ==
    LET p == FirstIndex(ord, ConnectedInternalKeys(displays, internals))
        Conn(k) == DisplayConnected(displays, k)
        all == SelectSeq(ord, Conn) IN
    IF p # 0
    THEN [reports |-> <<DisplayId(ord[p])>>, marker |-> DisplayId(ord[p])]
    ELSE IF all # <<>>
         THEN [reports |-> [i \in 1..Len(all) |-> DisplayId(all[i])],
               marker |-> DisplayId(all[Len(all)])]
         ELSE [reports |-> <<>>, marker |-> marker]

\* The selection of enable(): the displays it reports and the marker it leaves.
selectPrimary(displays, ord, internals, marker) ==
    LET p == FirstIndex(ord, ConnectedInternalKeys(displays, internals))
        c == FirstIndex(ord, ConnectedKeys(displays)) IN
    IF p # 0
    THEN [reports |-> <<DisplayId(ord[p])>>, marker |-> DisplayId(ord[p])]
    ELSE IF c # 0
         THEN [reports |-> <<DisplayId(ord[c])>>, marker |-> DisplayId(ord[c])]
         ELSE [reports |-> <<>>, marker |-> marker]

\* reportExternal() without the test of connected().
reportExternalIgnoresConnected(displays, ord, marker) ==
    LET Other(k) == DisplayId(k) # marker
        sel == SelectSeq(ord, Other) IN
    IF marker = 0
    THEN [reports |-> <<>>, marker |-> marker]
    ELSE [reports |-> [i \in 1..Len(sel) |-> DisplayId(sel[i])], marker |-> 0]

\* reportExternal() without the comparison with the marker.
reportExternalAllConnected(displays, ord, marker) ==
    LET Conn(k) == DisplayConnected(displays, k) IN
    IF marker = 0
    THEN [reports |-> <<>>, marker |-> marker]
    ELSE [reports |-> SelectSeq(ord, Conn), marker |-> 0]

reportExternal(displays, ord, marker) ==
    LET Other(k) == DisplayId(k) # marker /\ DisplayConnected(displays, k)
        sel == SelectSeq(ord, Other) IN
    IF marker = 0
    THEN [reports |-> <<>>, marker |-> marker]
    ELSE [reports |-> [i \in 1..Len(sel) |-> DisplayId(sel[i])], marker |-> 0]

\* ---------------------------------------------------------------- hotplug thread
\* HotplugThread: enable() starts it, disable() stops it and joins it; while
\* it runs it calls DrmDevice::update() on every event.
HotplugEvent ==
    /\ hotplugEnabled
    /\ hpPc = "idle"
    /\ hpPc' = "updating"
    /\ UNCHANGED <<mFd, crtcVars, mDisplays, order, lifeVars, envVars, pc, done, ret,
                   reports, disableCalls, holdVars>>

HotplugUpdate ==
    /\ hpPc = "updating"
    /\ mDisplays' = update(mDisplays, hwConnected)
    /\ hpPc' = "idle"
    /\ UNCHANGED <<mFd, crtcVars, order, lifeVars, envVars, pc, done, ret,
                   reports, disableCalls, holdVars>>

\* A connector is plugged or unplugged.
HwChange(k) ==
    /\ hwConnected' = IF k \in hwConnected THEN hwConnected \ {k} ELSE hwConnected \cup {k}
    /\ UNCHANGED <<mFd, crtcVars, mDisplays, order, lifeVars, hwInternal, hpPc, pc, done,
                   ret, reports, disableCalls, holdVars>>

\* ---------------------------------------------------------------- update, reportExternal
Update ==
    /\ Idle
    /\ mDisplays' = update(mDisplays, hwConnected)
    /\ pc' = Returned("update")
    /\ done' = <<>>
    /\ reports' = <<>>
    /\ ret' = 0
    /\ UNCHANGED <<mFd, crtcVars, order, lifeVars, hpPc, envVars, disableCalls, holdVars>>

ReportExternal ==
    /\ Idle
    /\ LET r == reportExternal(mDisplays, order, mPrimaryDisplay) IN
        /\ reports' = r.reports
        /\ mPrimaryDisplay' = r.marker
    /\ pc' = Returned("reportExternal")
    /\ done' = <<>>
    /\ ret' = 0
    /\ UNCHANGED <<mFd, crtcVars, mDisplays, order, mCallback, hotplugEnabled, hpPc,
                   envVars, disableCalls, holdVars>>

\* ---------------------------------------------------------------- getConnectedDisplay
\* The display getConnectedDisplay() returns, 0 for nullptr.
getConnectedDisplay(displays, connector) ==
    IF connector \notin DOMAIN displays
    THEN 0
    ELSE IF DisplayConnected(displays, connector) THEN connector ELSE 0

GetConnectedDisplay(connector) ==
    /\ Idle
    /\ ret' = getConnectedDisplay(mDisplays, connector)
    /\ pc' = Returned("getConnectedDisplay")
    /\ done' = <<>>
    /\ reports' = <<>>
    /\ UNCHANGED <<mFd, crtcVars, mDisplays, order, lifeVars, hpPc, envVars,
                   disableCalls, holdVars>>

\* ---------------------------------------------------------------- enable
\* enable() with the hotplug thread started before the selection.
EnableStepsHotplugFirst == <<"update", "storeCallback", "enableHotplug", "selectPrimary">>

\* The statements of enable(), in program order.
EnableSteps == <<"update", "storeCallback", "selectPrimary", "enableHotplug">>

\* The callbacks enable() is passed: the composer passes itself, never nullptr.
Callbacks == {1}

\* Position after the statement at pc.step of a call with n statements.
Advance(n) ==
    IF pc.step = n THEN Returned(pc.op) ELSE [pc EXCEPT !.step = @ + 1]

AtEnable(name) ==
    /\ pc.op = "enable"
    /\ pc.step # 0
    /\ EnableSteps[pc.step] = name
    /\ pc' = Advance(Len(EnableSteps))
    /\ done' = Append(done, name)

Enable(callback) ==
    /\ Idle
    /\ pc' = [op |-> "enable", step |-> 1, arg |-> callback]
    /\ done' = <<>>
    /\ reports' = <<>>
    /\ ret' = 0
    /\ UNCHANGED <<mFd, crtcVars, mDisplays, order, lifeVars, hpPc, envVars,
                   disableCalls, holdVars>>

EnableUpdate ==
    /\ AtEnable("update")
    /\ mDisplays' = update(mDisplays, hwConnected)
    /\ UNCHANGED <<mFd, crtcVars, order, lifeVars, hpPc, envVars, ret, reports,
                   disableCalls, holdVars>>

EnableStoreCallback ==
    /\ AtEnable("storeCallback")
    /\ mCallback' = pc.arg
    /\ UNCHANGED <<mFd, crtcVars, mDisplays, order, mPrimaryDisplay, hotplugEnabled, hpPc,
                   envVars, ret, reports, disableCalls, holdVars>>

EnableSelectPrimary ==
    /\ AtEnable("selectPrimary")
    /\ LET r == selectPrimary(mDisplays, order, hwInternal, mPrimaryDisplay) IN
        /\ reports' = r.reports
        /\ mPrimaryDisplay' = r.marker
    /\ UNCHANGED <<mFd, crtcVars, mDisplays, order, mCallback, hotplugEnabled, hpPc,
                   envVars, ret, disableCalls, holdVars>>

EnableHotplug ==
    /\ AtEnable("enableHotplug")
    /\ hotplugEnabled' = TRUE
    /\ UNCHANGED <<mFd, crtcVars, mDisplays, order, mPrimaryDisplay, mCallback, hpPc,
                   envVars, ret, reports, disableCalls, holdVars>>

\* ---------------------------------------------------------------- disable
\* disable() without the statement that clears the callback.
DisableStepsNoClear == <<"stopHotplug", "disableDisplays">>

\* disable() with the callback cleared before the hotplug thread is stopped.
DisableStepsCallbackFirst == <<"clearCallback", "stopHotplug", "disableDisplays">>

\* The statements of disable(), in program order.
DisableSteps == <<"stopHotplug", "clearCallback", "disableDisplays">>

AtDisable(name) ==
    /\ pc.op = "disable"
    /\ pc.step # 0
    /\ DisableSteps[pc.step] = name
    /\ pc' = Advance(Len(DisableSteps))
    /\ done' = Append(done, name)

\* arg records whether the call follows a disable() directly.
Disable ==
    /\ Idle
    /\ pc' = [op |-> "disable", step |-> 1,
              arg |-> IF pc = Returned("disable") THEN 1 ELSE 0]
    /\ done' = <<>>
    /\ reports' = <<>>
    /\ ret' = 0
    /\ disableCalls' = [k \in DOMAIN mDisplays |-> 0]
    /\ UNCHANGED <<mFd, crtcVars, mDisplays, order, lifeVars, hpPc, envVars, holdVars>>

\* mHotplugThread.disable() returns once the thread has been joined.
DisableStopHotplug ==
    /\ AtDisable("stopHotplug")
    /\ hpPc = "idle"
    /\ hotplugEnabled' = FALSE
    /\ UNCHANGED <<mFd, crtcVars, mDisplays, order, mPrimaryDisplay, mCallback, hpPc,
                   envVars, ret, reports, disableCalls, holdVars>>

DisableClearCallback ==
    /\ AtDisable("clearCallback")
    /\ mCallback' = 0
    /\ UNCHANGED <<mFd, crtcVars, mDisplays, order, mPrimaryDisplay, hotplugEnabled, hpPc,
                   envVars, ret, reports, disableCalls, holdVars>>

\* The loop of disable() skipping the displays that are not connected.
disableDisplaysConnectedOnly(displays, calls, used) ==
    [calls |-> [k \in DOMAIN displays |->
                    IF DisplayConnected(displays, k) THEN calls[k] + 1 ELSE calls[k]],
     used |-> used]

\* The loop of disable() releasing every CRTC as well.
disableDisplaysFreesCrtcs(displays, calls, used) ==
    [calls |-> [k \in DOMAIN displays |-> calls[k] + 1], used |-> {}]

\* The loop of disable(): DrmDisplay::disable() on every display of the
\* registry; the loop itself does not write the in-use mask.
disableDisplays(displays, calls, used) ==
    [calls |-> [k \in DOMAIN displays |-> calls[k] + 1], used |-> used]

DisableDisplays ==
    /\ AtDisable("disableDisplays")
    /\ LET r == disableDisplays(mDisplays, disableCalls, mUsedCrtcs) IN
        /\ disableCalls' = r.calls
        /\ mUsedCrtcs' = r.used
    /\ UNCHANGED <<mFd, mCrtcs, mDisplays, order, lifeVars, hpPc, envVars, ret,
                   reports, holdVars>>

\* ---------------------------------------------------------------- life-cycle specification
\* The registry, the marker, the callback and the hotplug thread under
\* initialize, update, enable, reportExternal and disable; the resource query
\* answers all CRTCs of the device and any number of connectors.
ResourcesLife == {r \in Resources : r.ok => r.crtcs = AllCrtcs}

NextLife ==
    \/ \E res \in ResourcesLife : Initialize(res)
    \/ Update
    \/ \E callback \in Callbacks : Enable(callback)
    \/ EnableUpdate
    \/ EnableStoreCallback
    \/ EnableSelectPrimary
    \/ EnableHotplug
    \/ ReportExternal
    \/ Disable
    \/ DisableStopHotplug
    \/ DisableClearCallback
    \/ DisableDisplays
    \/ HotplugEvent
    \/ HotplugUpdate
    \/ \E k \in Connectors : HwChange(k)

\* Connector ids are only ever compared, and every iteration order of the
\* registry is explored, so the internal connectors can be taken to be the
\* first n.
InitLife == Init /\ \E n \in 0..MaxConnectors : hwInternal = 1..n

SpecLife == InitLife /\ [][NextLife]_vars


\* ---------------------------------------------------------------- CRTC specification
\* The pool under initialize, reserveCrtc and freeCrtc; the resource query
\* answers any CRTC list and the connectors of a single-connector device.
\* reserveCrtc and freeCrtc do not know their caller, so one caller shows all
\* the pool and the mask can do.
ResourcesCrtc == {r \in Resources : r.ok => r.connectors = {1}}

NextCrtc ==
    \/ \E res \in ResourcesCrtc : Initialize(res)
    \/ \E o \in 1..1, pipe \in Pipes : ReserveCrtc(o, pipe)
    \/ \E o \in 1..1, pipe \in Pipes : FreeCrtc(o, pipe)

InitCrtc == Init /\ hwConnected = {} /\ hwInternal = {}

SpecCrtc == InitCrtc /\ [][NextCrtc]_vars

\* ---------------------------------------------------------------- ownership specification
\* Several outputs reserving and freeing engines of a device whose resource
\* query answers its first n CRTCs.
ResourcesHold ==
    {r \in ResourcesCrtc : \E n \in 0..MaxCrtcs : r.crtcs = SubSeq(AllCrtcs, 1, n)}

NextHold ==
    \/ \E res \in ResourcesHold : Initialize(res)
    \/ \E o \in Callers, pipe \in Pipes : ReserveCrtc(o, pipe)
    \/ \E o \in Callers, pipe \in Pipes : FreeCrtc(o, pipe)

SpecHold == InitCrtc /\ [][NextHold]_vars

\* ---------------------------------------------------------------- registry specification
\* The registry under initialize and update on a device whose connectors
\* are plugged and unplugged; the resource query answers no CRTC or all
\* CRTCs of the device, in its order or in the reverse one, and any number
\* of connectors.
ReversedCrtcs == [i \in 1..MaxCrtcs |-> AllCrtcs[MaxCrtcs + 1 - i]]

ResourcesInit == {r \in Resources : r.crtcs \in {<<>>, AllCrtcs, ReversedCrtcs}}

NextInit ==
    \/ \E res \in ResourcesInit : Initialize(res)
    \/ Update
    \/ \E k \in Connectors : HwChange(k)

InitInit == Init /\ hwInternal = {}

SpecInit == InitInit /\ [][NextInit]_vars

\* ---------------------------------------------------------------- frame specification
\* Every method of the manager, called by the owning thread one after the
\* other on a device without internal connectors whose connectors are
\* plugged and unplugged while no hotplug event is delivered.  One output
\* reserves and frees the first CRTC and a pipe beyond the width of int.
FramePipes == {0, IntBits + 1}

NextFrame ==
    \/ \E res \in ResourcesLife : Initialize(res)
    \/ \E connector \in Connectors : GetConnectedDisplay(connector)
    \/ \E pipe \in FramePipes : ReserveCrtc(1, pipe)
    \/ \E pipe \in FramePipes : FreeCrtc(1, pipe)
    \/ Update
    \/ \E callback \in Callbacks : Enable(callback)
    \/ EnableUpdate
    \/ EnableStoreCallback
    \/ EnableSelectPrimary
    \/ EnableHotplug
    \/ ReportExternal
    \/ Disable
    \/ DisableStopHotplug
    \/ DisableClearCallback
    \/ DisableDisplays
    \/ \E k \in Connectors : HwChange(k)

SpecFrame == InitInit /\ [][NextFrame]_vars

\* ---------------------------------------------------------------- reveal specification
\* initialize, update, enable, reportExternal and disable called by the
\* owning thread while no hotplug event is delivered: the displays keep the
\* connection state their last update() found.
NextReveal ==
    \/ \E res \in ResourcesLife : Initialize(res)
    \/ Update
    \/ \E callback \in Callbacks : Enable(callback)
    \/ EnableUpdate
    \/ EnableStoreCallback
    \/ EnableSelectPrimary
    \/ EnableHotplug
    \/ ReportExternal
    \/ Disable
    \/ DisableStopHotplug
    \/ DisableClearCallback
    \/ DisableDisplays
    \/ \E k \in Connectors : HwChange(k)

SpecReveal == InitLife /\ [][NextReveal]_vars

\* ---------------------------------------------------------------- race specification
\* The manager is initialized once, with all CRTCs of the device, before
\* the two threads start to reserve CRTCs and to free the ones they hold.
ResourcesRace == {r \in ResourcesHold : r.ok /\ r.crtcs = AllCrtcs}

InitializeOnce ==
    /\ pc = Returned("new")
    /\ \E res \in ResourcesRace : Initialize(res)

NextRace ==
    \/ InitializeOnce
    \/ \E t \in Threads, pipe \in 0..MaxCrtcs : ReserveTest(t, pipe)
    \/ \E t \in Threads : ReserveLoad(t)
    \/ \E t \in Threads : ReserveStore(t)
    \/ \E t \in Threads, pipe \in 0..MaxCrtcs : FreeLoad(t, pipe)
    \/ \E t \in Threads : FreeStore(t)

SpecRace == InitCrtc /\ [][NextRace]_vars

\* ---------------------------------------------------------------- whole manager
Next == NextRace \/ NextHold \/ NextCrtc \/ NextLife \/ NextInit \/ NextFrame \/ NextReveal

Spec == Init /\ [][Next]_vars

\* ---------------------------------------------------------------- claims on the CRTC pool
InRange(pipe) == pipe < Len(mCrtcs)

\* C1: reserveCrtc(p) returns non-zero iff p is inside the pool and bit p of
\* the in-use mask is clear; then bit p becomes set, every other bit is kept
\* and the value returned is pool[p]; otherwise the pool and the mask are
\* unchanged and 0 is returned.
C1_ReserveContract ==
    [][\A o \in Callers, p \in Pipes :
        ReserveCrtc(o, p) =>
            LET ok == InRange(p) /\ p \notin mUsedCrtcs IN
            /\ (ret' # 0) <=> ok
            /\ ok => /\ mUsedCrtcs' = mUsedCrtcs \cup {p}
                     /\ ret' = mCrtcs[p + 1]
            /\ ~ok => /\ mUsedCrtcs' = mUsedCrtcs
                      /\ ret' = 0
            /\ mCrtcs' = mCrtcs]_vars

\* A reserveCrtc has just succeeded on a pool whose mask had a bit set already.
C1_Witness ==
    /\ pc = Returned("reserveCrtc")
    /\ ret # 0
    /\ Cardinality(mUsedCrtcs) >= 2

HoldersOf(pipe) == {o \in Callers : <<o, pipe>> \in holders}

\* C2 as stated: whatever reserveCrtc and freeCrtc calls the outputs issue,
\* no engine is held by two outputs at once.
C2_ExclusiveAnySequence ==
    \A p \in Pipes : Cardinality(HoldersOf(p)) <= 1

\* C2 amended: as long as no output has freed an engine that another output
\* held, no engine is held by two outputs at once, and a held engine has its
\* bit set whenever it is inside the pool it was reserved from.
C2_ExclusiveOwnFrees ==
    ~foreignFree =>
        /\ \A p \in Pipes : Cardinality(HoldersOf(p)) <= 1
        /\ \A h \in holders : h[2] \in mUsedCrtcs

\* A second output's reserveCrtc has just failed while engines are held.
C2_Witness ==
    /\ ~foreignFree
    /\ pc = Returned("reserveCrtc")
    /\ ret = 0
    /\ \E p \in Pipes : InRange(p) /\ HoldersOf(p) # {}
    /\ Cardinality(holders) >= 2

\* C3: freeCrtc(p) clears bit p and keeps every other bit when p is inside
\* the pool, changes nothing when p is outside it, and changes nothing when
\* bit p is already clear; the pool itself is never touched.
C3_FreeContract ==
    [][\A o \in Callers, p \in Pipes :
        FreeCrtc(o, p) =>
            /\ InRange(p) => mUsedCrtcs' = mUsedCrtcs \ {p}
            /\ ~InRange(p) => mUsedCrtcs' = mUsedCrtcs
            /\ p \notin mUsedCrtcs => mUsedCrtcs' = mUsedCrtcs
            /\ mCrtcs' = mCrtcs
            /\ UNCHANGED <<mDisplays, order, lifeVars>>]_vars

\* A freeCrtc has just returned and left another bit of the mask set.
C3_Witness ==
    /\ pc = Returned("freeCrtc")
    /\ mUsedCrtcs # {}
    /\ \E p \in 0..(Len(mCrtcs) - 1) : p \notin mUsedCrtcs

\* C4: the in-use mask never has more bits set than the pool has engines,
\* and never has a bit set at an index outside the pool.
C4_MaskWithinPool ==
    /\ Cardinality(mUsedCrtcs) <= Len(mCrtcs)
    /\ \A b \in mUsedCrtcs : b < Len(mCrtcs)

\* ---------------------------------------------------------------- claims on enable, reportExternal, disable
\* k is the first key of S in the iteration order of the registry.
IsFirstOf(k, S) ==
    /\ k \in S
    /\ \A i, j \in 1..Len(order) : (order[j] = k /\ i < j) => order[i] \notin S

\* The step with which the current enable() returns.
EnableReturns == pc.op = "enable" /\ pc.step # 0 /\ pc'.step = 0

Connected == {k \in DOMAIN mDisplays : mDisplays[k].connected}
ConnectedInternal == Connected \cap hwInternal

\* C5: when the selection of enable() finds a connected internal display, it
\* reports exactly the first such display of the registry and writes its id
\* to the marker, and the marker still holds that id when enable() returns.
C5_EnableReportsInternal ==
    [][/\ (EnableSelectPrimary /\ ConnectedInternal # {}) =>
            \E k \in ConnectedInternal :
                /\ IsFirstOf(k, ConnectedInternal)
                /\ reports' = <<DisplayId(k)>>
                /\ mPrimaryDisplay' = DisplayId(k)
       /\ (EnableReturns /\ reports # <<>> /\ reports[1] \in hwInternal) =>
            /\ reports' = reports
            /\ Len(reports') = 1
            /\ mPrimaryDisplay' = reports'[1]]_vars

\* enable() has returned after reporting an internal display that comes
\* after a connected external one in the registry.
C5_Witness ==
    /\ pc = Returned("enable")
    /\ Len(reports) = 1
    /\ reports[1] \in hwInternal
    /\ mPrimaryDisplay = reports[1]
    /\ \E i, j \in 1..Len(order) :
        /\ i < j
        /\ order[j] = reports[1]
        /\ order[i] \in Connected \ hwInternal

\* C6: when the selection of enable() finds connected displays but no
\* connected internal one, it reports exactly the first connected display of
\* the registry and writes its id to the marker, which still holds it when
\* enable() returns.
C6_EnableReportsFirstConnected ==
    [][/\ (EnableSelectPrimary /\ ConnectedInternal = {} /\ Connected # {}) =>
            \E k \in Connected :
                /\ IsFirstOf(k, Connected)
                /\ reports' = <<DisplayId(k)>>
                /\ mPrimaryDisplay' = DisplayId(k)
       /\ (EnableReturns /\ reports # <<>> /\ reports[1] \notin hwInternal) =>
            /\ reports' = reports
            /\ Len(reports') = 1
            /\ mPrimaryDisplay' = reports'[1]]_vars

\* enable() has returned after reporting one of two connected external displays.
C6_Witness ==
    /\ pc = Returned("enable")
    /\ Len(reports) = 1
    /\ mPrimaryDisplay = reports[1]
    /\ Connected \cap hwInternal = {}
    /\ Cardinality(Connected) >= 2

SeqRange(q) == {q[i] : i \in 1..Len(q)}

\* C7: reportExternal() with no marker changes nothing and reports nothing;
\* with a marker it reports, once each, exactly the connected displays whose
\* id differs from the marker, and it always leaves the marker absent.
C7_ReportExternalContract ==
    [][ReportExternal =>
        /\ mPrimaryDisplay = 0 =>
            /\ reports' = <<>>
            /\ UNCHANGED <<mDisplays, order, mPrimaryDisplay, mCallback, hotplugEnabled,
                           crtcVars>>
        /\ mPrimaryDisplay # 0 =>
            /\ SeqRange(reports') = {DisplayId(k) : k \in {c \in Connected :
                                                    DisplayId(c) # mPrimaryDisplay}}
            /\ Len(reports') = Cardinality(SeqRange(reports'))
        /\ mPrimaryDisplay' = 0]_vars

\* reportExternal() has just reported a display while another connected
\* display, the primary, was left out.
C7_Witness ==
    /\ pc = Returned("reportExternal")
    /\ reports # <<>>
    /\ mPrimaryDisplay = 0
    /\ Connected \ SeqRange(reports) # {}

\* C8 as stated: whenever the selection of enable() finds no connected
\* display it reports nothing and the marker is absent afterwards, up to the
\* return of enable().
C8_NoConnectedNoMarker ==
    [][/\ (EnableSelectPrimary /\ Connected = {}) =>
            /\ reports' = <<>>
            /\ mPrimaryDisplay' = 0
       /\ (EnableReturns /\ reports = <<>>) => mPrimaryDisplay' = 0]_vars

Prefix(p, q) == Len(p) <= Len(q) /\ p = SubSeq(q, 1, Len(p))

\* C9: the statements an enable() call has executed are, in this order, the
\* update pass, the store of the callback, the selection with its report,
\* and the start of the hotplug thread; the thread is started by the call
\* only after the callback is stored and the selection has written its
\* report and the marker.
C9_EnableOrder ==
    pc.op = "enable" =>
        /\ Prefix(done, <<"update", "storeCallback", "selectPrimary", "enableHotplug">>)
        /\ pc.step = 0 => Len(done) = 4
        /\ "storeCallback" \in SeqRange(done) => mCallback \in Callbacks
        /\ "selectPrimary" \notin SeqRange(done) => reports = <<>>
        /\ reports # <<>> => mPrimaryDisplay = reports[1]
        /\ "enableHotplug" \in SeqRange(done) =>
            /\ hotplugEnabled
            /\ {"update", "storeCallback", "selectPrimary"} \subseteq SeqRange(done)

\* enable() has returned: a primary was reported and the thread runs.
C9_Witness ==
    /\ pc = Returned("enable")
    /\ reports # <<>>
    /\ hotplugEnabled
    /\ mCallback = 1

\* C10: disable() stops the hotplug thread first, then clears the callback,
\* then disables the displays; from the stop on and for as long as the
\* thread is not enabled again, no update() of the hotplug thread is running.
C10_DisableStopsHotplugFirst ==
    /\ pc.op = "disable" =>
        /\ Prefix(done, <<"stopHotplug", "clearCallback", "disableDisplays">>)
        /\ Len(done) >= 1 => (~hotplugEnabled /\ hpPc = "idle")
        /\ Len(done) = 0 => \A k \in DOMAIN disableCalls : disableCalls[k] = 0
    /\ mCallback = 0 => ~hotplugEnabled
    /\ ~hotplugEnabled => hpPc = "idle"

\* disable() has stopped the thread and not yet cleared the callback.
C10_Witness ==
    /\ pc.op = "disable"
    /\ done = <<"stopHotplug">>
    /\ mCallback = 1
    /\ ~hotplugEnabled

\* ---------------------------------------------------------------- claims on disable, repeated
\* What a caller can observe of the manager.
observable == <<hotplugEnabled, mCallback, mCrtcs, mUsedCrtcs, mDisplays, order,
                mPrimaryDisplay>>

\* C11: when a disable() returns, every display of the registry, connected
\* or not, has had its disable() invoked exactly once by the call; and from
\* the return of a disable() to the return of a disable() that follows it
\* directly, the thread stays stopped, the callback absent, and the pool,
\* the in-use mask, the registry and the marker are what they were.
C11_DisableAllOnceIdempotent ==
    [][/\ (pc.op = "disable" /\ pc.step # 0 /\ pc'.step = 0) =>
            /\ DOMAIN disableCalls' = DOMAIN mDisplays'
            /\ \A k \in DOMAIN mDisplays' : disableCalls'[k] = 1
       /\ ((pc = Returned("disable") \/ (pc.op = "disable" /\ pc.arg = 1))
                /\ pc'.op = "disable") =>
            /\ ~hotplugEnabled /\ mCallback = 0
            /\ UNCHANGED observable]_vars

\* A disable() that follows a disable() directly is about to disable a
\* registry with a connected and a disconnected display a second time.
C11_Witness ==
    /\ pc.op = "disable"
    /\ pc.arg = 1
    /\ done = <<"stopHotplug", "clearCallback">>
    /\ Connected # {}
    /\ DOMAIN mDisplays \ Connected # {}
    /\ mPrimaryDisplay # 0

\* ---------------------------------------------------------------- claims on initialize
\* The iteration order of the registry lists each of its keys once.
OrderOfRegistry ==
    /\ SeqRange(order) = DOMAIN mDisplays
    /\ Len(order) = Cardinality(DOMAIN mDisplays)

\* C12 as stated: after every successful initialize() the keys of the
\* registry are exactly the connector ids the resource query of that call
\* returned, and the pool is the CRTC list it returned.
C12_RegistryIsQuery ==
    [][\A res \in ResourcesInit :
        (Initialize(res) /\ ret' = 1) =>
            /\ DOMAIN mDisplays' = res.connectors
            /\ mCrtcs' = res.crtcs]_vars

\* C12 amended: after every successful initialize() the keys of the
\* registry are the keys it had before together with the connector ids the
\* resource query of that call returned, each once, so exactly the returned
\* ids when the registry was empty; and the pool is the CRTC list returned.
C12_RegistryGrowsByQuery ==
    [][\A res \in ResourcesInit :
        (Initialize(res) /\ ret' = 1) =>
            /\ DOMAIN mDisplays' = (DOMAIN mDisplays) \cup res.connectors
            /\ mDisplays = <<>> => DOMAIN mDisplays' = res.connectors
            /\ OrderOfRegistry'
            /\ mCrtcs' = res.crtcs]_vars

\* A successful initialize() has left a registry with every connector and a
\* pool that lists the CRTCs in another order than the device does.
C12_Witness ==
    /\ pc = Returned("initialize")
    /\ ret = 1
    /\ DOMAIN mDisplays = Connectors
    /\ Len(mCrtcs) = MaxCrtcs
    /\ mCrtcs # AllCrtcs

\* C13: initialize() returns false when the file descriptor is invalid or
\* when the resource query fails, and then leaves the pool, the in-use mask,
\* the registry and the marker as they were, which is empty for the pool and
\* the registry of a device that was never initialized; the descriptor never
\* changes, so with an invalid one every initialize() fails.
C13_InitializeFailure ==
    [][/\ \A res \in ResourcesCrtc :
            (Initialize(res) /\ (mFd < 0 \/ ~res.ok)) =>
                /\ ret' = 0
                /\ UNCHANGED <<mCrtcs, mUsedCrtcs, mDisplays, order, mPrimaryDisplay>>
       /\ mFd' = mFd
       /\ mFd < 0 => (mCrtcs' = <<>> /\ mDisplays' = <<>>)
       /\ (mFd < 0 /\ pc'.op = "initialize") => ret' = 0]_vars

\* An initialize() whose resource query failed has returned false and left
\* the pool, the mask and the registry of an earlier initialize() in place.
C13_Witness ==
    /\ pc = Returned("initialize")
    /\ ret = 0
    /\ mFd >= 0
    /\ mCrtcs # <<>>
    /\ mUsedCrtcs # {}
    /\ mDisplays # <<>>

\* C14 as stated: a successful initialize() takes the pool from its query
\* and leaves a newly constructed display under every connector id the
\* query returned, also under the ids that were keys of the registry before.
C14_ReinitializeOverwrites ==
    [][\A res \in ResourcesInit :
        (Initialize(res) /\ ret' = 1) =>
            /\ mCrtcs' = res.crtcs
            /\ \A k \in res.connectors : mDisplays'[k] = NewDisplay]_vars

\* C14 amended: a successful initialize() takes the pool from its query,
\* keeps the display, with its state, of every connector id that was a key
\* of the registry before, and leaves a newly constructed display under the
\* returned ids that were not.
C14_ReinitializeKeeps ==
    [][\A res \in ResourcesInit :
        (Initialize(res) /\ ret' = 1) =>
            /\ mCrtcs' = res.crtcs
            /\ \A k \in DOMAIN mDisplays : mDisplays'[k] = mDisplays[k]
            /\ \A k \in res.connectors \ DOMAIN mDisplays :
                    mDisplays'[k] = NewDisplay]_vars

\* An initialize() has succeeded on a registry that held a display an
\* update() had found connected, next to a display that is not.
C14_Witness ==
    /\ pc = Returned("initialize")
    /\ ret = 1
    /\ Connected # {}
    /\ DOMAIN mDisplays \ Connected # {}
    /\ mCrtcs # <<>>

\* ---------------------------------------------------------------- claims on the callback and the frames
\* C15: the callback is present when enable() has returned and absent when
\* disable() has returned, and whenever the current or last call of the
\* owning thread has reported a display the callback is present.
C15_ReportsOnlyWithCallback ==
    /\ pc = Returned("enable") => mCallback # 0
    /\ pc = Returned("disable") => mCallback = 0
    /\ reports # <<>> => mCallback # 0

\* The step is the selection of an enable() call.
SelectionStep == pc.op = "enable" /\ done' = Append(done, "selectPrimary")

\* The step is a reportExternal() call.
ReportExternalStep == Idle /\ pc' = Returned("reportExternal")

UpToDate == \A k \in DOMAIN mDisplays : DisplayConnected(mDisplays, k) = (k \in hwConnected)

\* C17: the keys of the registry and their iteration order change only in a
\* successful initialize(): no step of update, enable, reportExternal,
\* disable, reserveCrtc or freeCrtc adds or removes an entry; and an update()
\* leaves every display up to date, after which an update() with the
\* hardware unchanged leaves the registry, the pool, the in-use mask, the
\* marker and the callback as they are.
C17_RegistryKeysFrame ==
    [][/\ (DOMAIN mDisplays' # DOMAIN mDisplays \/ order' # order) =>
            (Idle /\ pc' = Returned("initialize") /\ ret' = 1)
       /\ Update => UpToDate'
       /\ (Update /\ UpToDate) =>
            UNCHANGED <<mDisplays, order, crtcVars, mPrimaryDisplay, mCallback>>]_vars

\* A second update() has returned on an enabled manager with a connected
\* and a disconnected display, a marker and a reserved CRTC.
C17_Witness ==
    /\ pc = Returned("update")
    /\ UpToDate
    /\ Connected # {}
    /\ DOMAIN mDisplays \ Connected # {}
    /\ mPrimaryDisplay # 0
    /\ mCallback # 0
    /\ mUsedCrtcs # {}

\* ---------------------------------------------------------------- claims on concurrent reserveCrtc and freeCrtc
\* C18: under every interleaving of the loads and stores of reserveCrtc and
\* freeCrtc calls of the two threads, no CRTC is held by both threads, and
\* whenever no call is in progress the set bits of the in-use mask are
\* exactly the CRTCs held: no bit set or cleared by a call has been lost.
C18_RaceFree ==
    /\ \A p \in Pipes : Cardinality(HoldersOf(p)) <= 1
    /\ (\A t \in Threads : thr[t].at = "idle") => mUsedCrtcs = {h[2] : h \in holders}

\* ---------------------------------------------------------------- claims on the two-phase reveal
\* C19: when reportExternal() is called directly after enable() and the
\* displays have kept their connection state, the reports of the two calls
\* together name every connected display of the registry exactly once and
\* no disconnected one; enable() has reported the primary alone, or nothing
\* when no display is connected, and reportExternal() reports the others.
C19_TwoPhaseReveal ==
    [][(ReportExternal /\ pc = Returned("enable")) =>
        LET all == reports \o reports' IN
        /\ SeqRange(all) = {DisplayId(k) : k \in Connected}
        /\ Len(all) = Cardinality(Connected)
        /\ Connected # {} => reports = <<mPrimaryDisplay>>
        /\ Connected = {} => reports = <<>>
        /\ SeqRange(reports') = {DisplayId(k) : k \in Connected} \ SeqRange(reports)]_vars

\* reportExternal() has reported an external display that comes first in
\* the registry, after enable() had reported the internal one.
C19_Witness ==
    /\ pc = Returned("reportExternal")
    /\ reports # <<>>
    /\ reports[1] = order[1]
    /\ Connected \ SeqRange(reports) # {}
    /\ Connected \ SeqRange(reports) \subseteq hwInternal

\* ---------------------------------------------------------------- claims on the hotplug thread and the callback
\* C20: whenever the owning thread is in no call, the hotplug thread is
\* enabled iff the callback is present; both are off after construction and
\* after every disable(), and both are on after every enable().
C20_MonitorIffCallback ==
    /\ Idle => (hotplugEnabled <=> mCallback # 0)
    /\ pc = Returned("new") => (~hotplugEnabled /\ mCallback = 0)
    /\ pc = Returned("disable") => (~hotplugEnabled /\ mCallback = 0)
    /\ pc = Returned("enable") => (hotplugEnabled /\ mCallback # 0)

\* disable() has returned on a manager that an enable() had given a
\* primary display: the thread is stopped and the callback is absent.
C20_Witness ==
    /\ pc = Returned("disable")
    /\ mPrimaryDisplay # 0
    /\ Connected # {}
    /\ ~hotplugEnabled
    /\ mCallback = 0

====
